---------------------------- MODULE Spec2Model ----------------------------
(***************************************************************************)
(* GDG Network Graph (src/src/index.js): the contributor graph page.       *)
(*                                                                         *)
(* Text is held as sequences of one-character strings, so that lower-      *)
(* casing, slugging, prefix/substring/subsequence tests are computed on    *)
(* the characters as the JavaScript does.  DOM elements are held by their  *)
(* class sets, the tooltip by its class set, html and style position.      *)
(***************************************************************************)
EXTENDS Integers, Sequences, FiniteSets, TLC

VARIABLES
    loadState,   \* "pending" | "loaded" | "failed": the d3.json callback
    alerts,      \* number of alert() notices raised
    nodes,       \* the node objects built by the load callback (graph.nodes)
    cards,       \* the .person-card elements' content (data-id, name text, year text)
    links,       \* graph.links
    nodeClass,   \* class set of each g.node element
    cardClass,   \* class set of each .person-card element
    tipClass,    \* class set of the .tooltip element
    tipHtml,     \* what tooltip.html(...) last set
    tipPos,      \* the tooltip's style left/top (half pixels)
    rafQueue,    \* callbacks handed to requestAnimationFrame, not yet run
    searchValue, \* searchInput.value
    searchThrew, \* the last input handler run ended in an uncaught TypeError
    scrolledTo,  \* the card last passed to scrollIntoView (0: none yet)
    position,    \* each node's d.x, d.y
    pin,         \* each node's d.fx, d.fy (fixed: they are not null)
    gestures,    \* the nodes with a drag gesture in progress
    sim,         \* the force simulation: created, alphaTarget (tenths), timer running
    pointer,     \* d3.event.x, d3.event.y of the last drag event
    last,        \* the event last dispatched (history)
    ret          \* the last direct call of a pure function and what it returned

dragVars == <<position, pin, gestures, sim, pointer>>

vars == <<loadState, alerts, nodes, cards, links, nodeClass, cardClass, tipClass,
          tipHtml, tipPos, rafQueue, searchValue, searchThrew, scrolledTo, last, ret,
          dragVars>>

(***************************************************************************)
(* Bounds                                                                  *)
(***************************************************************************)
MaxPeople == 4

(***************************************************************************)
(* Characters and strings                                                  *)
(***************************************************************************)
Uppers == <<"A","B","C","D","E","F","G","H","I","J","K","L","M",
            "N","O","P","Q","R","S","T","U","V","W","X","Y","Z">>

Lowers == <<"a","b","c","d","e","f","g","h","i","j","k","l","m",
            "n","o","p","q","r","s","t","u","v","w","x","y","z">>

DigitChars == <<"0","1","2","3","4","5","6","7","8","9">>

\* the characters in use
Chars == {Uppers[k] : k \in 1..Len(Uppers)} \cup {Lowers[k] : k \in 1..Len(Lowers)}
            \cup {DigitChars[k] : k \in 1..Len(DigitChars)} \cup {" ", "-"}

\* String.prototype.toLowerCase on each character: a capital letter goes to
\* its small letter, every other character stays
LowerCaseOf ==
    [c \in Chars |->
        IF \E k \in 1..Len(Uppers) : Uppers[k] = c
        THEN Lowers[CHOOSE k \in 1..Len(Uppers) : Uppers[k] = c]
        ELSE c]

toLowerChar(c) == LowerCaseOf[c]

\* String.prototype.toLowerCase
toLowerCase(s) == [k \in 1..Len(s) |-> toLowerChar(s[k])]

\* the regular expression class \s, on the characters in use
IsSpace(c) == c = " "

\* String(n) for a non-negative integer n
RECURSIVE NumberToString(_)
NumberToString(n) ==
    IF n < 10 THEN <<DigitChars[n + 1]>>
    ELSE NumberToString(n \div 10) \o <<DigitChars[(n % 10) + 1]>>

\* s.replace(/\s+/g, '-'): every maximal run of whitespace becomes one hyphen
RECURSIVE ReplaceSpaceRuns(_)
ReplaceSpaceRuns(s) ==
    IF s = <<>> THEN <<>>
    ELSE IF IsSpace(Head(s))
         THEN IF Len(s) > 1 /\ IsSpace(s[2])
              THEN ReplaceSpaceRuns(Tail(s))
              ELSE <<"-">> \o ReplaceSpaceRuns(Tail(s))
         ELSE <<Head(s)>> \o ReplaceSpaceRuns(Tail(s))

(***************************************************************************)
(* JavaScript values of the optional graduationYear field                  *)
(***************************************************************************)
Absent == [t |-> "null", s |-> <<>>, n |-> 0]

StrVal(s) == [t |-> "str", s |-> s, n |-> 0]

NumVal(n) == [t |-> "num", s |-> <<>>, n |-> n]

\* JavaScript truthiness of such a value
Truthy(v) == \/ v.t = "str" /\ v.s # <<>>
             \/ v.t = "num" /\ v.n # 0

\* `${v}`: the value interpolated into a template literal
Interpolate(v) ==
    IF v.t = "str" THEN v.s
    ELSE IF v.t = "num" THEN NumberToString(v.n)
    ELSE <<"n","u","l","l">>

(***************************************************************************)
(* Input documents: person records {name, graduationYear}                  *)
(***************************************************************************)
Alice == <<"A","l","i","c","e">>

Bob == <<"B","o","b">>

Cara == <<"C","a","r","a">>

JoC == <<"J","o"," "," ","C">>

UnknownLabel == <<"u","n","k","n","o","w","n">>

Y2020 == <<"2","0","2","0">>

NamePool == {Alice, Bob, Cara, JoC}

YearPool == {Absent, StrVal(UnknownLabel), NumVal(2020)}

Persons == [name : NamePool, graduationYear : YearPool]

\* the sequences over S of length at most n
SeqsUpTo(S, n) == UNION {[1..k -> S] : k \in 0..n}

\* every document of at most MaxPeople records
Documents == SeqsUpTo(Persons, MaxPeople)

(***************************************************************************)
(* Record normalizer: data.map(...)                                        *)
(***************************************************************************)
MakeNode(person, index) ==
    [id             |-> ReplaceSpaceRuns(toLowerCase(person.name)),
     name           |-> person.name,
     graduationYear |-> IF Truthy(person.graduationYear)
                        THEN person.graduationYear ELSE Absent,
     index          |-> index]

MakeNodes(data) == [k \in 1..Len(data) |-> MakeNode(data[k], k - 1)]

(***************************************************************************)
(* Sidebar population: one .person-card per node                           *)
(***************************************************************************)
ClassOf == <<"C","l","a","s","s"," ","o","f"," ">>

MakeCard(d) ==
    [dataId     |-> d.id,
     personName |-> d.name,
     hasYear    |-> Truthy(d.graduationYear),
     yearText   |-> IF Truthy(d.graduationYear)
                    THEN ClassOf \o Interpolate(d.graduationYear) ELSE <<>>]

MakeCards(ns) == [k \in 1..Len(ns) |-> MakeCard(ns[k])]

(***************************************************************************)
(* Relationship builder                                                    *)
(***************************************************************************)
\* const year = node.graduationYear || 'unknown'
YearKey(node) ==
    IF Truthy(node.graduationYear) THEN node.graduationYear ELSE StrVal(UnknownLabel)

\* yearGroups after the nodes.forEach: the Map's entries in insertion order,
\* each [key, groupNodes], groupNodes the indices (1-based) of the group's nodes
RECURSIVE GroupFrom(_, _, _)
GroupFrom(ns, k, groups) ==
    IF k > Len(ns) THEN groups
    ELSE LET year == YearKey(ns[k])
             has  == \E g \in 1..Len(groups) : groups[g].key = year
             with == IF has THEN groups
                     ELSE Append(groups, [key |-> year, groupNodes |-> <<>>])
             at   == CHOOSE g \in 1..Len(with) : with[g].key = year
         IN  GroupFrom(ns, k + 1,
                 [with EXCEPT ![at].groupNodes = Append(@, k)])

yearGroups(ns) == GroupFrom(ns, 1, <<>>)

\* a ring loop that stops one short: the closing edge is never pushed
GroupLinksOpenPath(ns, groupNodes) ==
    [i \in 1..(Len(groupNodes) - 1) |->
        [source |-> ns[groupNodes[i]].id,
         target |-> ns[groupNodes[i + 1]].id]]

\* the for loop of the 3+ case: the edges it pushes, in push order
GroupLinksRing(ns, groupNodes) ==
    [i \in 1..Len(groupNodes) |->
        [source |-> ns[groupNodes[i]].id,
         target |-> ns[groupNodes[(i % Len(groupNodes)) + 1]].id]]

\* the builder without its two-node case: a pair falls through to the ring loop
GroupLinksNoPairCase(ns, groupNodes) ==
    IF Len(groupNodes) = 1 THEN <<>>
    ELSE GroupLinksRing(ns, groupNodes)

\* the edges one group contributes (the body of yearGroups.forEach)
GroupLinks(ns, groupNodes) ==
    IF Len(groupNodes) = 1 THEN <<>>
    ELSE IF Len(groupNodes) = 2
         THEN << [source |-> ns[groupNodes[1]].id, target |-> ns[groupNodes[2]].id] >>
         ELSE GroupLinksRing(ns, groupNodes)

RECURSIVE LinksFrom(_, _, _)
LinksFrom(ns, groups, g) ==
    IF g > Len(groups) THEN <<>>
    ELSE GroupLinks(ns, groups[g].groupNodes) \o LinksFrom(ns, groups, g + 1)

BuildLinks(ns) == LinksFrom(ns, yearGroups(ns), 1)

(***************************************************************************)
(* Tooltip positioner.  Lengths are in half pixels (a pixel value v is     *)
(* held as 2v) so that tooltipWidth / 2 and tooltipHeight / 2 are exact    *)
(* for odd sizes.  tooltipNode is tooltip.node(): [present, offsetWidth,   *)
(* offsetHeight]; win is the window: [innerWidth, innerHeight].            *)
(***************************************************************************)
padding == 12

gap == 16

DefaultNodeRadius == 8

FallbackWidthDetailed == 280

FallbackWidthHover == 180

FallbackHeightDetailed == 200

FallbackHeightHover == 60

Max2(a, b) == IF a >= b THEN a ELSE b

Min2(a, b) == IF a <= b THEN a ELSE b

tooltipWidth(tooltipNode, isDetailed) ==
    IF tooltipNode.present THEN tooltipNode.offsetWidth
    ELSE IF isDetailed THEN FallbackWidthDetailed ELSE FallbackWidthHover

tooltipHeight(tooltipNode, isDetailed) ==
    IF tooltipNode.present THEN tooltipNode.offsetHeight
    ELSE IF isDetailed THEN FallbackHeightDetailed ELSE FallbackHeightHover

\* the placement above the node, clamped horizontally
PlaceAbove(x, y, nodeRadius, w, h, win) ==
    [left |-> Max2(2 * padding, Min2(2 * x - w, 2 * win.innerWidth - 2 * w - 2 * padding)),
     top  |-> 2 * y - 2 * nodeRadius - 2 * h - 2 * gap]

\* the cascade without its first fallback: the placement above is kept as it is
PlaceBelowNever(p, y, nodeRadius) == p

\* if (top < padding) top = y + nodeRadius + gap
PlaceBelow(p, y, nodeRadius) ==
    IF p.top < 2 * padding
    THEN [p EXCEPT !.top = 2 * y + 2 * nodeRadius + 2 * gap]
    ELSE p

\* if (top + tooltipHeight > window.innerHeight - padding) { ... }
PlaceSide(p, x, y, nodeRadius, w, h, win) ==
    IF p.top + 2 * h > 2 * win.innerHeight - 2 * padding
    THEN [left |-> IF (2 * x + 2 * nodeRadius + 2 * gap) + 2 * w
                         > 2 * win.innerWidth - 2 * padding
                   THEN 2 * x - 2 * nodeRadius - 2 * w - 2 * gap
                   ELSE 2 * x + 2 * nodeRadius + 2 * gap,
          top  |-> Max2(2 * padding, 2 * y - h)]
    ELSE p

positionTooltip(x, y, isDetailed, nodeRadius, tooltipNode, win) ==
    LET w == tooltipWidth(tooltipNode, isDetailed)
        h == tooltipHeight(tooltipNode, isDetailed)
    IN  PlaceSide(PlaceBelow(PlaceAbove(x, y, nodeRadius, w, h, win), y, nodeRadius),
                  x, y, nodeRadius, w, h, win)

(***************************************************************************)
(* Search matcher                                                          *)
(***************************************************************************)
\* the loop of fuzzyMatch from position i with queryIndex matched so far
\* (both 0-based as in the source); the value is the final queryIndex
\* a scan that stays on a character of the text after matching it
RECURSIVE FuzzyScanSameChar(_, _, _, _)
FuzzyScanSameChar(text, query, i, queryIndex) ==
    IF i < Len(text) /\ queryIndex < Len(query)
    THEN IF text[i + 1] = query[queryIndex + 1]
         THEN FuzzyScanSameChar(text, query, i, queryIndex + 1)
         ELSE FuzzyScanSameChar(text, query, i + 1, queryIndex)
    ELSE queryIndex

RECURSIVE FuzzyScan(_, _, _, _)
FuzzyScan(text, query, i, queryIndex) ==
    IF i < Len(text) /\ queryIndex < Len(query)
    THEN FuzzyScan(text, query, i + 1,
                   IF text[i + 1] = query[queryIndex + 1] THEN queryIndex + 1
                   ELSE queryIndex)
    ELSE queryIndex

fuzzyMatch(text, query) == FuzzyScan(toLowerCase(text), query, 0, 0) = Len(query)

\* String.prototype.startsWith
startsWith(text, query) ==
    /\ Len(query) <= Len(text)
    /\ SubSeq(text, 1, Len(query)) = query

\* String.prototype.includes
includes(text, query) ==
    \E at \in 0..(Len(text) - Len(query)) : SubSeq(text, at + 1, at + Len(query)) = query

\* the scorer without its text = text.toLowerCase()
getMatchScoreNoLowerCase(text, query) ==
    IF startsWith(text, query) THEN 100
    ELSE IF includes(text, query) THEN 50
    ELSE IF fuzzyMatch(text, query) THEN 25
    ELSE 0

getMatchScore(text, query) ==
    IF startsWith(toLowerCase(text), query) THEN 100
    ELSE IF includes(toLowerCase(text), query) THEN 50
    ELSE IF fuzzyMatch(toLowerCase(text), query) THEN 25
    ELSE 0

\* String.prototype.trim
RECURSIVE trimStart(_)
trimStart(s) == IF s # <<>> /\ IsSpace(Head(s)) THEN trimStart(Tail(s)) ELSE s

RECURSIVE trimEnd(_)
trimEnd(s) ==
    IF s # <<>> /\ IsSpace(s[Len(s)]) THEN trimEnd(SubSeq(s, 1, Len(s) - 1)) ELSE s

trim(s) == trimEnd(trimStart(s))

(***************************************************************************)
(* DOM helpers                                                             *)
(***************************************************************************)
\* selection.classed(name, on) over every element of a selection
classedAll(cls, name, on) ==
    [k \in DOMAIN cls |-> IF on THEN cls[k] \cup {name} ELSE cls[k] \ {name}]

\* d3.select(`.person-card[data-id="${id}"]`): the first matching card, in
\* document order, as a set of at most one index
selectCard(id) ==
    {k \in 1..Len(cards) :
        /\ cards[k].dataId = id
        /\ \A j \in 1..(k - 1) : cards[j].dataId # id}

NoHtml == [kind |-> "empty", name |-> <<>>, graduationYear |-> Absent]

\* the content showDetailedTooltip builds from d
DetailHtml(d) == [kind |-> "detailed", name |-> d.name, graduationYear |-> d.graduationYear]

\* hoverContent of the mouseover handler
HoverHtml(d) == [kind |-> "hover", name |-> d.name, graduationYear |-> d.graduationYear]

\* the callback showDetailedTooltip / mouseover hands to requestAnimationFrame
Callback(isDetailed, x, y) == [isDetailed |-> isDetailed, x |-> x, y |-> y]

Event(ev, who) == [ev |-> ev, who |-> who]

(***************************************************************************)
(* Environment of the interaction model: where getBoundingClientRect puts  *)
(* a clicked element, the rendered tooltip sizes, the window               *)
(***************************************************************************)
MaxPending == 2

Anchors == {[x |-> 150, y |-> 80]}

TipNodes == {[present |-> TRUE, offsetWidth |-> 180, offsetHeight |-> 60],
             [present |-> TRUE, offsetWidth |-> 281, offsetHeight |-> 201]}

Window == [innerWidth |-> 800, innerHeight |-> 600]

\* where a node can be: its random start and where a tick moves it
Points == {[x |-> 100, y |-> 100], [x |-> 200, y |-> 150]}

\* where the pointer of a drag event can be
PointerPoints == {[x |-> 300, y |-> 50], [x |-> 320, y |-> 60]}

\* d.fx = d.fy = null
Unpinned == [fixed |-> FALSE, fx |-> 0, fy |-> 0]

\* d.fx = x, d.fy = y
PinnedAt(x, y) == [fixed |-> TRUE, fx |-> x, fy |-> y]

AlphaTargetDrag == 3

NoSimulation == [created |-> FALSE, alphaTarget |-> 0, running |-> FALSE]

\* d3.forceSimulation(): alphaTarget 0, the timer started
NewSimulation == [created |-> TRUE, alphaTarget |-> 0, running |-> TRUE]

\* a start with every node at the first point
StartTogether(data) == [k \in 1..Len(data) |-> [x |-> 100, y |-> 100]]

(***************************************************************************)
(* Initial state: the script has run, the d3.json request is in flight     *)
(***************************************************************************)
Init ==
    /\ loadState = "pending"
    /\ alerts = 0
    /\ nodes = <<>>
    /\ cards = <<>>
    /\ links = <<>>
    /\ nodeClass = <<>>
    /\ cardClass = <<>>
    /\ tipClass = {}
    /\ tipHtml = NoHtml
    /\ tipPos = [left |-> 0, top |-> 0]
    /\ rafQueue = <<>>
    /\ searchValue = <<>>
    /\ searchThrew = FALSE
    /\ scrolledTo = 0
    /\ last = Event("none", 0)
    /\ ret = [fn |-> "none"]
    /\ position = <<>>
    /\ pin = <<>>
    /\ gestures = {}
    /\ sim = NoSimulation
    /\ pointer = [x |-> 0, y |-> 0]

(***************************************************************************)
(* d3.json callback                                                        *)
(***************************************************************************)
\* an error branch that only logs: no notice is shown to the user
LoadErrorNoNotice ==
    /\ loadState = "pending"
    /\ loadState' = "failed"
    /\ last' = Event("loadError", 0)
    /\ UNCHANGED <<alerts, nodes, cards, links, nodeClass, cardClass, tipClass, tipHtml,
                   tipPos, rafQueue, searchValue, searchThrew, scrolledTo, ret, dragVars>>

LoadError ==
    /\ loadState = "pending"
    /\ loadState' = "failed"
    /\ alerts' = alerts + 1
    /\ last' = Event("loadError", 0)
    /\ UNCHANGED <<nodes, cards, links, nodeClass, cardClass, tipClass, tipHtml,
                   tipPos, rafQueue, searchValue, searchThrew, scrolledTo, ret, dragVars>>

LoadData(data, start) ==
    /\ loadState = "pending"
    /\ loadState' = "loaded"
    /\ nodes' = MakeNodes(data)
    /\ cards' = MakeCards(nodes')
    /\ links' = BuildLinks(nodes')
    /\ nodeClass' = [k \in 1..Len(data) |-> {"node"}]
    /\ cardClass' = [k \in 1..Len(data) |-> {"person-card"}]
    /\ position' = start
    /\ pin' = [k \in 1..Len(data) |-> Unpinned]
    /\ sim' = NewSimulation
    /\ last' = Event("load", 0)
    /\ UNCHANGED <<alerts, tipClass, tipHtml, tipPos, rafQueue, searchValue,
                   searchThrew, scrolledTo, ret, gestures, pointer>>

(***************************************************************************)
(* Pointer events                                                          *)
(***************************************************************************)
\* showDetailedTooltip(d, x, y)
showDetailedTooltip(d, x, y) ==
    /\ tipHtml' = DetailHtml(d)
    /\ rafQueue' = Append(rafQueue, Callback(TRUE, x, y))

\* the node click without d3.selectAll(".person-card").classed("active", false)
ClickNodeNoCardClear(i) ==
    /\ loadState = "loaded"
    /\ i \in 1..Len(nodes)
    /\ Len(rafQueue) < MaxPending
    /\ nodeClass' = [classedAll(nodeClass, "active", FALSE) EXCEPT ![i] = @ \cup {"active"}]
    /\ cardClass' = [k \in DOMAIN cardClass |->
                        IF k \in selectCard(nodes[i].id)
                        THEN cardClass[k] \cup {"active"}
                        ELSE cardClass[k]]
    /\ \E a \in Anchors : showDetailedTooltip(nodes[i], a.x, a.y)
    /\ last' = Event("clickNode", i)
    /\ UNCHANGED <<loadState, alerts, nodes, cards, links, tipClass, tipPos,
                   searchValue, searchThrew, scrolledTo, ret, dragVars>>

\* click on the circle of node i (stopPropagation: the document listener
\* does not see it)
ClickNode(i) ==
    /\ loadState = "loaded"
    /\ i \in 1..Len(nodes)
    /\ Len(rafQueue) < MaxPending
    /\ nodeClass' = [classedAll(nodeClass, "active", FALSE) EXCEPT ![i] = @ \cup {"active"}]
    /\ cardClass' = [k \in DOMAIN cardClass |->
                        IF k \in selectCard(nodes[i].id)
                        THEN cardClass[k] \cup {"active"}
                        ELSE cardClass[k] \ {"active"}]
    /\ \E a \in Anchors : showDetailedTooltip(nodes[i], a.x, a.y)
    /\ last' = Event("clickNode", i)
    /\ UNCHANGED <<loadState, alerts, nodes, cards, links, tipClass, tipPos,
                   searchValue, searchThrew, scrolledTo, ret, dragVars>>

\* the card click without d3.selectAll(".person-card").classed("active", false)
ClickCardNoClear(i) ==
    /\ loadState = "loaded"
    /\ i \in 1..Len(cards)
    /\ Len(rafQueue) < MaxPending
    /\ cardClass' = [cardClass EXCEPT ![i] = @ \cup {"active"}]
    /\ \E a \in Anchors : showDetailedTooltip(nodes[i], a.x, a.y)
    /\ last' = Event("clickCard", i)
    /\ UNCHANGED <<loadState, alerts, nodes, cards, links, nodeClass, tipClass, tipPos,
                   searchValue, searchThrew, scrolledTo, ret, dragVars>>

\* click on card i; the event then bubbles to the document listener, whose
\* condition !event.target.closest('.person-card') is false
ClickCard(i) ==
    /\ loadState = "loaded"
    /\ i \in 1..Len(cards)
    /\ Len(rafQueue) < MaxPending
    /\ cardClass' = [classedAll(cardClass, "active", FALSE) EXCEPT ![i] = @ \cup {"active"}]
    /\ \E a \in Anchors : showDetailedTooltip(nodes[i], a.x, a.y)
    /\ last' = Event("clickCard", i)
    /\ UNCHANGED <<loadState, alerts, nodes, cards, links, nodeClass, tipClass, tipPos,
                   searchValue, searchThrew, scrolledTo, ret, dragVars>>

\* click whose target is inside neither a .node nor a .person-card
ClickOutside ==
    /\ IF "detailed" \in tipClass
       THEN /\ tipClass' = tipClass \ {"visible", "detailed"}
            /\ cardClass' = classedAll(cardClass, "active", FALSE)
            /\ nodeClass' = classedAll(nodeClass, "active", FALSE)
       ELSE UNCHANGED <<tipClass, cardClass, nodeClass>>
    /\ last' = Event("clickOutside", 0)
    /\ UNCHANGED <<loadState, alerts, nodes, cards, links, tipHtml, tipPos, rafQueue,
                   searchValue, searchThrew, scrolledTo, ret, dragVars>>

MouseOver(i) ==
    /\ loadState = "loaded"
    /\ i \in 1..Len(nodes)
    /\ "detailed" \in tipClass \/ Len(rafQueue) < MaxPending
    /\ IF "detailed" \notin tipClass
       THEN /\ tipHtml' = HoverHtml(nodes[i])
            /\ \E a \in Anchors : rafQueue' = Append(rafQueue, Callback(FALSE, a.x, a.y))
       ELSE UNCHANGED <<tipHtml, rafQueue>>
    /\ last' = Event("mouseover", i)
    /\ UNCHANGED <<loadState, alerts, nodes, cards, links, nodeClass, cardClass,
                   tipClass, tipPos, searchValue, searchThrew, scrolledTo, ret, dragVars>>

MouseOut(i) ==
    /\ loadState = "loaded"
    /\ i \in 1..Len(nodes)
    /\ tipClass' = IF "detailed" \notin tipClass THEN tipClass \ {"visible"} ELSE tipClass
    /\ last' = Event("mouseout", i)
    /\ UNCHANGED <<loadState, alerts, nodes, cards, links, nodeClass, cardClass,
                   tipHtml, tipPos, rafQueue, searchValue, searchThrew, scrolledTo, ret, dragVars>>

(***************************************************************************)
(* Animation frame: the browser runs every queued callback, in order       *)
(***************************************************************************)
\* one callback, on the tooltip [cls, pos]
RunCallback(tip, cb, tooltipNode) ==
    [pos |-> positionTooltip(cb.x, cb.y, cb.isDetailed, DefaultNodeRadius,
                             tooltipNode, Window),
     cls |-> tip.cls \cup (IF cb.isDetailed THEN {"visible", "detailed"}
                           ELSE {"visible"})]

RECURSIVE RunCallbacks(_, _, _)
RunCallbacks(tip, queue, tooltipNode) ==
    IF queue = <<>> THEN tip
    ELSE RunCallbacks(RunCallback(tip, Head(queue), tooltipNode), Tail(queue), tooltipNode)

AnimationFrame ==
    /\ rafQueue # <<>>
    /\ \E tooltipNode \in TipNodes :
          LET tip == RunCallbacks([pos |-> tipPos, cls |-> tipClass], rafQueue, tooltipNode)
          IN  /\ tipPos' = tip.pos
              /\ tipClass' = tip.cls
    /\ rafQueue' = <<>>
    /\ last' = Event("frame", 0)
    /\ UNCHANGED <<loadState, alerts, nodes, cards, links, nodeClass, cardClass,
                   tipHtml, searchValue, searchThrew, scrolledTo, ret, dragVars>>

(***************************************************************************)
(* Search input                                                            *)
(***************************************************************************)
\* .classed('search-match', isMatch).classed('search-dim', !isMatch)
classedMatch(cls, isMatch) ==
    IF isMatch THEN (cls \cup {"search-match"}) \ {"search-dim"}
    ELSE (cls \cup {"search-dim"}) \ {"search-match"}

\* getMatchScore(d.graduationYear, query) throws a TypeError when the year is
\* a number: text.toLowerCase is not a function
NodeThrows(d) == Truthy(d.graduationYear) /\ d.graduationYear.t # "str"

\* score of the node loop, for a node whose year is absent or a string
NodeScore(d, query) ==
    Max2(getMatchScore(d.name, query),
         IF Truthy(d.graduationYear) THEN getMatchScore(d.graduationYear.s, query) ELSE 0)

\* score of the card loop, from the card's rendered texts
CardScore(card, query) ==
    Max2(getMatchScore(card.personName, query),
         getMatchScore(IF card.hasYear THEN card.yearText ELSE <<>>, query))

\* the index at which nodeElements.each throws, 0 if it runs to the end
ThrowAt ==
    IF \E k \in 1..Len(nodes) : NodeThrows(nodes[k])
    THEN CHOOSE k \in 1..Len(nodes) :
            NodeThrows(nodes[k]) /\ \A j \in 1..(k - 1) : ~NodeThrows(nodes[j])
    ELSE 0

\* firstMatch after the card loop has seen cards 1..k: [card, bestScore]
RECURSIVE BestMatch(_, _)
BestMatch(query, k) ==
    IF k = 0 THEN [card |-> 0, bestScore |-> 0]
    ELSE LET before == BestMatch(query, k - 1)
             score  == CardScore(cards[k], query)
         IN  IF score > 0 /\ score > before.bestScore
             THEN [card |-> k, bestScore |-> score]
             ELSE before

\* an 'input' listener whose empty-query branch forgets the list entries
InputHandlerNodesOnly(value) ==
    LET query == trim(toLowerCase(value))
    IN  IF query = <<>>
        THEN /\ nodeClass' = classedAll(classedAll(nodeClass, "search-match", FALSE),
                                        "search-dim", FALSE)
             /\ searchThrew' = FALSE
             /\ UNCHANGED <<cardClass, scrolledTo>>
        ELSE /\ nodeClass' = [k \in DOMAIN nodeClass |->
                                 IF ThrowAt = 0 \/ k < ThrowAt
                                 THEN classedMatch(nodeClass[k], NodeScore(nodes[k], query) > 0)
                                 ELSE nodeClass[k]]
             /\ IF ThrowAt # 0
                THEN /\ searchThrew' = TRUE
                     /\ UNCHANGED <<cardClass, scrolledTo>>
                ELSE /\ searchThrew' = FALSE
                     /\ cardClass' = [k \in DOMAIN cardClass |->
                                         classedMatch(cardClass[k],
                                                      CardScore(cards[k], query) > 0)]
                     /\ scrolledTo' = IF BestMatch(query, Len(cards)).card # 0
                                      THEN BestMatch(query, Len(cards)).card
                                      ELSE scrolledTo

\* the 'input' listener, with this.value = value
InputHandler(value) ==
    LET query == trim(toLowerCase(value))
    IN  IF query = <<>>
        THEN /\ nodeClass' = classedAll(classedAll(nodeClass, "search-match", FALSE),
                                        "search-dim", FALSE)
             /\ cardClass' = classedAll(classedAll(cardClass, "search-match", FALSE),
                                        "search-dim", FALSE)
             /\ searchThrew' = FALSE
             /\ UNCHANGED scrolledTo
        ELSE /\ nodeClass' = [k \in DOMAIN nodeClass |->
                                 IF ThrowAt = 0 \/ k < ThrowAt
                                 THEN classedMatch(nodeClass[k], NodeScore(nodes[k], query) > 0)
                                 ELSE nodeClass[k]]
             /\ IF ThrowAt # 0
                THEN /\ searchThrew' = TRUE
                     /\ UNCHANGED <<cardClass, scrolledTo>>
                ELSE /\ searchThrew' = FALSE
                     /\ cardClass' = [k \in DOMAIN cardClass |->
                                         classedMatch(cardClass[k],
                                                      CardScore(cards[k], query) > 0)]
                     /\ scrolledTo' = IF BestMatch(query, Len(cards)).card # 0
                                      THEN BestMatch(query, Len(cards)).card
                                      ELSE scrolledTo

\* the user edits the search box: its value becomes `value`, 'input' fires
SearchInput(value) ==
    /\ searchValue' = value
    /\ InputHandler(value)
    /\ last' = Event("input", 0)
    /\ UNCHANGED <<loadState, alerts, nodes, cards, links, tipClass, tipHtml, tipPos,
                   rafQueue, ret, dragVars>>

\* keydown with e.key === 'Escape'
KeydownEscape ==
    /\ searchValue' = <<>>
    /\ InputHandler(<<>>)
    /\ last' = Event("escape", 0)
    /\ UNCHANGED <<loadState, alerts, nodes, cards, links, tipClass, tipHtml, tipPos,
                   rafQueue, ret, dragVars>>

(***************************************************************************)
(* window 'resize': location.reload() starts the page afresh               *)
(***************************************************************************)
Resize ==
    /\ loadState' = "pending"
    /\ alerts' = 0
    /\ nodes' = <<>>
    /\ cards' = <<>>
    /\ links' = <<>>
    /\ nodeClass' = <<>>
    /\ cardClass' = <<>>
    /\ tipClass' = {}
    /\ tipHtml' = NoHtml
    /\ tipPos' = [left |-> 0, top |-> 0]
    /\ rafQueue' = <<>>
    /\ searchValue' = <<>>
    /\ searchThrew' = FALSE
    /\ scrolledTo' = 0
    /\ last' = Event("none", 0)
    /\ position' = <<>>
    /\ pin' = <<>>
    /\ gestures' = {}
    /\ sim' = NoSimulation
    /\ pointer' = [x |-> 0, y |-> 0]
    /\ UNCHANGED ret

(***************************************************************************)
(* Direct calls of the pure functions: one call, from the initial state    *)
(***************************************************************************)
AnchorStep == 10

MaxAnchorK == 60

MinAnchorK == 3

CallWindows == {[innerWidth |-> 360, innerHeight |-> 120],
                [innerWidth |-> 560, innerHeight |-> 400],
                [innerWidth |-> 600, innerHeight |-> 600]}

CallTipNodes == TipNodes \cup {[present |-> FALSE, offsetWidth |-> 0, offsetHeight |-> 0]}

CallPositionTooltip ==
    /\ ret.fn = "none"
    /\ \E kx \in 0..MaxAnchorK, ky \in (0 - MinAnchorK)..MaxAnchorK, isDetailed \in BOOLEAN,
          tooltipNode \in CallTipNodes, win \in CallWindows :
          ret' = [fn |-> "positionTooltip", x |-> AnchorStep * kx, y |-> AnchorStep * ky,
                  isDetailed |-> isDetailed, tooltipNode |-> tooltipNode, win |-> win,
                  val |-> positionTooltip(AnchorStep * kx, AnchorStep * ky, isDetailed,
                                          DefaultNodeRadius, tooltipNode, win)]
    /\ UNCHANGED <<loadState, alerts, nodes, cards, links, nodeClass, cardClass, tipClass,
                   tipHtml, tipPos, rafQueue, searchValue, searchThrew, scrolledTo, last, dragVars>>

MaxTextLen == 4

MaxQueryLen == 3

TextChars == {"J", "a", "c"}

QueryChars == {"j", "a", "c"}

Joshua == <<"J","o","s","h","u","a">>

Choong == <<"C","h","o","o","n","g">>

JoshuaChoong == Joshua \o <<" ">> \o Choong

CallTexts == SeqsUpTo(TextChars, MaxTextLen) \cup {Joshua, Choong, JoshuaChoong}

CallQueries == SeqsUpTo(QueryChars, MaxQueryLen)
                  \cup {<<"j","c">>, <<"j","o","s">>, <<"s","h","u">>, <<"j","x">>}

CallGetMatchScore ==
    /\ ret.fn = "none"
    /\ \E text \in CallTexts, query \in CallQueries :
          ret' = [fn |-> "getMatchScore", text |-> text, query |-> query,
                  val |-> getMatchScore(text, query)]
    /\ UNCHANGED <<loadState, alerts, nodes, cards, links, nodeClass, cardClass, tipClass,
                   tipHtml, tipPos, rafQueue, searchValue, searchThrew, scrolledTo, last, dragVars>>

CallFuzzyMatch ==
    /\ ret.fn = "none"
    /\ \E text \in CallTexts, query \in CallQueries :
          ret' = [fn |-> "fuzzyMatch", text |-> text, query |-> query,
                  val |-> fuzzyMatch(text, query)]
    /\ UNCHANGED <<loadState, alerts, nodes, cards, links, nodeClass, cardClass, tipClass,
                   tipHtml, tipPos, rafQueue, searchValue, searchThrew, scrolledTo, last, dragVars>>

(***************************************************************************)
(* Specifications                                                          *)
(***************************************************************************)
Person(name, graduationYear) == [name |-> name, graduationYear |-> graduationYear]

\* the documents of the interaction model: the scenario of three contributors
\* of one year, one with mixed years, one with a repeated name
PageDocuments ==
    { << Person(Alice, NumVal(2020)), Person(Bob, NumVal(2020)), Person(Cara, NumVal(2020)) >>,
      << Person(Alice, StrVal(Y2020)), Person(Bob, Absent), Person(Cara, StrVal(UnknownLabel)) >>,
      << Person(Alice, StrVal(Y2020)), Person(Alice, Absent), Person(Bob, StrVal(Y2020)) >> }

PageSearchValues == { <<>>, <<" ">>, <<"c","l">> }

LoadPage ==
    loadState = "pending" /\ \E data \in PageDocuments : LoadData(data, StartTogether(data))

ClickSomeNode == \E i \in 1..Len(nodes) : ClickNode(i)

ClickSomeCard == \E i \in 1..Len(cards) : ClickCard(i)

MouseOverSomeNode == \E i \in 1..Len(nodes) : MouseOver(i)

MouseOutSomeNode == \E i \in 1..Len(nodes) : MouseOut(i)

TypeInPage == \E value \in PageSearchValues : SearchInput(value)

Next ==
    \/ LoadError
    \/ LoadPage
    \/ ClickSomeNode
    \/ ClickSomeCard
    \/ ClickOutside
    \/ MouseOverSomeNode
    \/ MouseOutSomeNode
    \/ AnimationFrame
    \/ TypeInPage
    \/ KeydownEscape
    \/ Resize

Spec == Init /\ [][Next]_vars

\* the load callback alone, over every document of the bound
LoadAny ==
    loadState = "pending" /\ \E data \in Documents : LoadData(data, StartTogether(data))

NextBuild == LoadError \/ LoadAny

SpecBuild == Init /\ [][NextBuild]_vars

\* the tooltip positioner alone
SpecTip == Init /\ [][CallPositionTooltip]_vars

\* the search matcher alone
NextMatch == CallGetMatchScore \/ CallFuzzyMatch

SpecMatch == Init /\ [][NextMatch]_vars

\* the load callback and the search box, over every small document
MaxSearchPeople == 2

MaxValueLen == 2

SearchPersons == {[name |-> Alice, graduationYear |-> StrVal(Y2020)],
                  [name |-> Bob, graduationYear |-> Absent],
                  [name |-> Bob, graduationYear |-> StrVal(Y2020)],
                  [name |-> Cara, graduationYear |-> NumVal(2020)]}

SearchDocuments == SeqsUpTo(SearchPersons, MaxSearchPeople)

SearchChars == {"C", "l", " "}

SearchValues == SeqsUpTo(SearchChars, MaxValueLen)

LoadSearch ==
    loadState = "pending" /\ \E data \in SearchDocuments : LoadData(data, StartTogether(data))

TypeInSearch == \E value \in SearchValues : SearchInput(value)

NextSearch == LoadSearch \/ TypeInSearch \/ KeydownEscape

SpecSearch == Init /\ [][NextSearch]_vars

(***************************************************************************)
(* Relationship builder: properties of the loaded graph                    *)
(***************************************************************************)
Loaded == loadState = "loaded"

UniqueIds == \A i, j \in 1..Len(nodes) : nodes[i].id = nodes[j].id => i = j

\* the nodes the builder groups with node i: those with the same group key
GroupOf(i) == {j \in 1..Len(nodes) : YearKey(nodes[j]) = YearKey(nodes[i])}

Groups == {GroupOf(i) : i \in 1..Len(nodes)}

MinOf(S) == CHOOSE m \in S : \A n \in S : m <= n

MaxOf(S) == CHOOSE m \in S : \A n \in S : m >= n

\* the member after j in group (input) order, the first one after the last
NextInGroup(G, j) == IF j = MaxOf(G) THEN MinOf(G) ELSE MinOf({m \in G : m > j})

\* the positions in links of the edges with an end in G
LinksTouching(G) ==
    {k \in 1..Len(links) :
        \E j \in G : links[k].source = nodes[j].id \/ links[k].target = nodes[j].id}

\* the positions in links of the edges with both ends in G
LinksWithin(G) ==
    {k \in 1..Len(links) :
        /\ \E j \in G : links[k].source = nodes[j].id
        /\ \E j \in G : links[k].target = nodes[j].id}

Degree(id) ==
    Cardinality({k \in 1..Len(links) : links[k].source = id})
        + Cardinality({k \in 1..Len(links) : links[k].target = id})

Link(source, target) == [source |-> source, target |-> target]

\* C4: with unique identifiers, a group of N >= 3 nodes gets exactly N
\* edges: one from each node to the next in group order and one from the
\* last back to the first, so every node of the group has degree 2 and the
\* edges form one cycle through all N nodes; Alice, Bob, Cara of one year
\* give exactly alice-bob, bob-cara, cara-alice.
C4_RingPerGroup ==
    (Loaded /\ UniqueIds) =>
        /\ \A G \in Groups :
              Cardinality(G) >= 3 =>
                 /\ Cardinality(LinksTouching(G)) = Cardinality(G)
                 /\ LinksWithin(G) = LinksTouching(G)
                 /\ \A j \in G :
                       /\ Cardinality({k \in 1..Len(links) :
                              links[k] = Link(nodes[j].id, nodes[NextInGroup(G, j)].id)}) = 1
                       /\ Degree(nodes[j].id) = 2
        /\ ( /\ Len(nodes) = 3
             /\ nodes[1].name = Alice /\ nodes[2].name = Bob /\ nodes[3].name = Cara
             /\ Cardinality(Groups) = 1 )
           => links = << Link(<<"a","l","i","c","e">>, <<"b","o","b">>),
                         Link(<<"b","o","b">>, <<"c","a","r","a">>),
                         Link(<<"c","a","r","a">>, <<"a","l","i","c","e">>) >>

\* C4 witness: four differently named contributors of one year are loaded
\* and joined by four edges
C4_Witness ==
    /\ Loaded /\ UniqueIds
    /\ Len(nodes) = 4
    /\ Cardinality(Groups) = 1
    /\ \A i \in 1..4 : nodes[i].graduationYear = NumVal(2020)
    /\ Len(links) = 4

\* C5: no edge joins two nodes of different cohorts, a cohort being the
\* nodes with equal graduationYear values and the nodes without the field
\* forming a cohort of their own (the label "unknown" is a value like any
\* other).
C5_NoEdgeAcrossCohorts ==
    (Loaded /\ UniqueIds) =>
        \A k \in 1..Len(links) : \A i, j \in 1..Len(nodes) :
           (links[k].source = nodes[i].id /\ links[k].target = nodes[j].id)
              => nodes[i].graduationYear = nodes[j].graduationYear

\* the number of edges a group of the given size is to get
EdgesForSize(G) ==
    IF Cardinality(G) = 1 THEN 0 ELSE IF Cardinality(G) = 2 THEN 1 ELSE Cardinality(G)

RECURSIVE SumEdgesForSize(_)
SumEdgesForSize(S) ==
    IF S = {} THEN 0
    ELSE LET G == CHOOSE G \in S : TRUE IN EdgesForSize(G) + SumEdgesForSize(S \ {G})

\* C6: a group of two nodes gets exactly one edge, between the two; a
\* group of one node gets none; the number of edges in all is the sum
\* over the groups of 0 (size 1), 1 (size 2) or the size (3 and more).
C6_PairAndSingleton ==
    Loaded =>
        /\ Len(links) = SumEdgesForSize(Groups)
        /\ UniqueIds =>
              \A G \in Groups :
                 /\ Cardinality(G) = 1 => LinksTouching(G) = {}
                 /\ Cardinality(G) = 2 =>
                       /\ Cardinality(LinksTouching(G)) = 1
                       /\ \A k \in LinksTouching(G) :
                             links[k] = Link(nodes[MinOf(G)].id, nodes[MaxOf(G)].id)

\* C6 witness: a loaded graph with a pair, a singleton and nothing else,
\* hence one edge
C6_Witness ==
    /\ Loaded /\ UniqueIds
    /\ Len(nodes) = 3
    /\ {Cardinality(G) : G \in Groups} = {1, 2}
    /\ Len(links) = 1

(***************************************************************************)
(* Tooltip positioner: properties of a call                                *)
(***************************************************************************)
Positioned == ret.fn = "positionTooltip"

RetWidth == tooltipWidth(ret.tooltipNode, ret.isDetailed)

RetHeight == tooltipHeight(ret.tooltipNode, ret.isDetailed)

\* C7: for an anchor inside the window and a window at least twice the
\* tooltip's size each way, the returned rectangle keeps 12 pixels from
\* every edge of the window (lengths in half pixels).
C7_RectangleInsideWindow ==
    ( /\ Positioned
      /\ 0 <= ret.x /\ ret.x <= ret.win.innerWidth
      /\ 0 <= ret.y /\ ret.y <= ret.win.innerHeight
      /\ ret.win.innerWidth >= 2 * RetWidth
      /\ ret.win.innerHeight >= 2 * RetHeight )
    => /\ 2 * 12 <= ret.val.left
       /\ ret.val.left + 2 * RetWidth <= 2 * ret.win.innerWidth - 2 * 12
       /\ 2 * 12 <= ret.val.top
       /\ ret.val.top + 2 * RetHeight <= 2 * ret.win.innerHeight - 2 * 12

\* the placement above the anchor would start above the padding floor
AboveRejected == 2 * ret.y - 2 * 8 - 2 * RetHeight - 2 * 16 < 2 * 12

\* C8: for an anchor with y >= 0 the returned top is at least the padding
\* of 12; when the placement above would start above that floor, the top
\* returned is that of the placement below (y + 8 + 16) or of the side
\* placement (max(12, y - h/2)) (lengths in half pixels).
C8_TopAtLeastPadding ==
    (Positioned /\ ret.y >= 0) =>
        /\ ret.val.top >= 2 * 12
        /\ AboveRejected =>
              \/ ret.val.top = 2 * ret.y + 2 * 8 + 2 * 16
              \/ ret.val.top = Max2(2 * 12, 2 * ret.y - RetHeight)

\* C8 witness: a call with the anchor 10 pixels under the top edge, where
\* the placement above is rejected and the one below returned
C8_Witness ==
    /\ Positioned
    /\ ret.y = 10
    /\ AboveRejected
    /\ ret.val.top = 2 * (10 + 8 + 16)

(***************************************************************************)
(* Search matcher: properties of a call                                    *)
(***************************************************************************)
IsPrefixOf(q, t) == Len(q) <= Len(t) /\ \A k \in 1..Len(q) : t[k] = q[k]

OccursIn(q, t) ==
    \E off \in 0..(Len(t) - Len(q)) : \A k \in 1..Len(q) : t[off + k] = q[k]

\* C10: getMatchScore is 100 when the lowercased text starts with the
\* query, else 50 when it contains the query, else 25 when fuzzyMatch
\* holds, else 0; ("Joshua Choong","jc") gives 25, ("Joshua","jos") 100,
\* ("Joshua","shu") 50.
C10_ScoreLadder ==
    ret.fn = "getMatchScore" =>
        /\ ret.val = IF IsPrefixOf(ret.query, toLowerCase(ret.text)) THEN 100
                     ELSE IF OccursIn(ret.query, toLowerCase(ret.text)) THEN 50
                     ELSE IF fuzzyMatch(ret.text, ret.query) THEN 25
                     ELSE 0
        /\ (ret.text = JoshuaChoong /\ ret.query = <<"j","c">>) => ret.val = 25
        /\ (ret.text = Joshua /\ ret.query = <<"j","o","s">>) => ret.val = 100
        /\ (ret.text = Joshua /\ ret.query = <<"s","h","u">>) => ret.val = 50

\* C10 witness: the call ("Joshua Choong", "jc") has returned 25
C10_Witness ==
    /\ ret.fn = "getMatchScore"
    /\ ret.text = JoshuaChoong
    /\ ret.query = <<"j","c">>
    /\ ret.val = 25

(***************************************************************************)
(* Search box: properties of the highlight classes                         *)
(***************************************************************************)
\* C9: after a search the graph node and the list entry of every
\* contributor carry the same highlight: both search-match or both
\* search-dim (stated of the runs of the handler that completed).
C9_HighlightsAgree ==
    (Loaded /\ ~searchThrew) =>
        \A k \in 1..Len(nodes) :
           /\ ("search-match" \in nodeClass[k]) <=> ("search-match" \in cardClass[k])
           /\ ("search-dim" \in nodeClass[k]) <=> ("search-dim" \in cardClass[k])

(***************************************************************************)
(* Selection: properties of the active marks                               *)
(***************************************************************************)
ActiveNodes == {k \in 1..Len(nodes) : "active" \in nodeClass[k]}

ActiveCards == {k \in 1..Len(cards) : "active" \in cardClass[k]}

\* C1: a graph node is active exactly when the list entry with the same
\* identifier is.
C1_SelectionInSync ==
    (Loaded /\ UniqueIds) =>
        \A i \in 1..Len(nodes), j \in 1..Len(cards) :
           nodes[i].id = cards[j].dataId => (i \in ActiveNodes <=> j \in ActiveCards)

\* C2: right after a click on a node, with unique identifiers, exactly one
\* node and exactly one list entry are active, and both are the clicked
\* node's.
C2_NodeClickSelectsOnePair ==
    (Loaded /\ UniqueIds /\ last.ev = "clickNode") =>
        /\ ActiveNodes = {last.who}
        /\ Cardinality(ActiveCards) = 1
        /\ \A j \in ActiveCards : cards[j].dataId = nodes[last.who].id

\* C2 witness: node 2 has just been clicked while the detailed tooltip of
\* an earlier click was open; node 2 and its list entry are the active pair
C2_Witness ==
    /\ Loaded /\ UniqueIds
    /\ last = Event("clickNode", 2)
    /\ "detailed" \in tipClass
    /\ rafQueue # <<>>
    /\ ActiveNodes = {2}
    /\ ActiveCards = {2}

\* C3: an outside-click that follows a click on a node or list entry
\* leaves no active node, no active list entry and a tooltip that is
\* neither visible nor detailed.
C3_OutsideClickClears ==
    (last.ev = "clickOutside" /\ tipHtml.kind = "detailed") =>
        /\ ActiveNodes = {}
        /\ ActiveCards = {}
        /\ "visible" \notin tipClass
        /\ "detailed" \notin tipClass

(***************************************************************************)
(* Fuzzy match: the ordered-subsequence reference                          *)
(***************************************************************************)
\* q is an ordered subsequence of t: every way of matching or skipping the
\* first character of t is tried
RECURSIVE IsSubsequenceOf(_, _)
IsSubsequenceOf(q, t) ==
    IF q = <<>> THEN TRUE
    ELSE IF t = <<>> THEN FALSE
    ELSE \/ (Head(q) = Head(t) /\ IsSubsequenceOf(Tail(q), Tail(t)))
         \/ IsSubsequenceOf(q, Tail(t))

\* C11: fuzzyMatch(text, query) is true exactly when the characters of the
\* query occur in the lower-cased text in order, not necessarily adjacent:
\* the greedy left-to-right scan agrees with the subsequence reference;
\* ("Joshua Choong", "jc") matches and ("Choong", "jx") does not.
C11_FuzzyIsSubsequence ==
    ret.fn = "fuzzyMatch" =>
        /\ ret.val = IsSubsequenceOf(ret.query, toLowerCase(ret.text))
        /\ (ret.text = JoshuaChoong /\ ret.query = <<"j","c">>) => ret.val = TRUE
        /\ (ret.text = Choong /\ ret.query = <<"j","x">>) => ret.val = FALSE

\* C11 witness: the call ("Joshua Choong", "jc") has returned true, its two
\* characters found apart from each other
C11_Witness ==
    /\ ret.fn = "fuzzyMatch"
    /\ ret.text = JoshuaChoong
    /\ ret.query = <<"j","c">>
    /\ ret.val = TRUE
    /\ ~OccursIn(ret.query, toLowerCase(ret.text))

(***************************************************************************)
(* Search box: the empty query                                             *)
(***************************************************************************)
SearchMarks == {"search-match", "search-dim"}

\* no graph node and no list entry is classed search-match or search-dim
NoSearchMarks ==
    /\ \A k \in DOMAIN nodeClass : nodeClass[k] \cap SearchMarks = {}
    /\ \A k \in DOMAIN cardClass : cardClass[k] \cap SearchMarks = {}

\* the step dispatched 'input' (typed or through Escape) with a query that
\* is empty after lower-casing and trimming
EmptyQueryStep ==
    /\ last'.ev \in {"input", "escape"}
    /\ trim(toLowerCase(searchValue')) = <<>>

\* C12: when the query becomes empty or whitespace-only, by typing or by
\* Escape, no node and no list entry is classed search-match or search-dim
\* afterwards, whatever marks were there before, and the selection (the
\* active classes) and the tooltip are left as they were.
C12_EmptyQueryClears ==
    [][EmptyQueryStep =>
          /\ NoSearchMarks'
          /\ \A k \in DOMAIN nodeClass :
                ("active" \in nodeClass'[k]) = ("active" \in nodeClass[k])
          /\ \A k \in DOMAIN cardClass :
                ("active" \in cardClass'[k]) = ("active" \in cardClass[k])
          /\ tipClass' = tipClass /\ tipHtml' = tipHtml /\ tipPos' = tipPos]_vars

\* C12 witness: a whitespace-only value has been typed after a search that
\* had marked the entries, with an entry selected and its detail tooltip
\* open: the marks are gone, the selection and the tooltip are not
C12_Witness ==
    /\ last.ev = "input"
    /\ searchValue = <<" ">>
    /\ scrolledTo # 0
    /\ NoSearchMarks
    /\ \E k \in DOMAIN cardClass : "active" \in cardClass[k]
    /\ "detailed" \in tipClass

(***************************************************************************)
(* Load failure                                                            *)
(***************************************************************************)
\* nothing of the page was built and the notice was raised once
NothingBuilt ==
    /\ nodes = <<>> /\ cards = <<>> /\ links = <<>>
    /\ nodeClass = <<>> /\ cardClass = <<>>
    /\ position = <<>> /\ pin = <<>>
    /\ ~sim.created
    /\ alerts = 1

\* C13: a load error aborts initialisation: while the session lasts no node,
\* edge, list entry or force simulation exists, the failure notice has been
\* raised exactly once (and none without a failure), and the load is never
\* tried again; only a reload, which starts a new session, leaves the state.
C13_LoadErrorAborts ==
    [][/\ loadState # "failed" => alerts = 0
       /\ loadState = "failed" =>
             /\ NothingBuilt
             /\ \/ loadState' = "failed" /\ NothingBuilt'
                \/ loadState' = "pending" /\ alerts' = 0 /\ last'.ev = "none"]_vars

\* C13 witness: the load has failed and the user has since clicked on the
\* page: one notice, nothing built
C13_Witness ==
    /\ loadState = "failed"
    /\ last.ev = "clickOutside"
    /\ NothingBuilt

(***************************************************************************)
(* Search box: a search over valid records                                 *)
(***************************************************************************)
\* the element carries exactly one of search-match and search-dim
Classified(cls) == ("search-match" \in cls) # ("search-dim" \in cls)

\* C14: over valid contributor records (graduation year absent, a year
\* string, or a year number) a search with a non-empty query completes
\* without a runtime failure and leaves every graph node and every list
\* entry classified as a match or as dimmed.
C14_SearchCompletes ==
    (Loaded /\ last.ev = "input" /\ trim(toLowerCase(searchValue)) # <<>>) =>
        /\ ~searchThrew
        /\ \A k \in DOMAIN nodeClass : Classified(nodeClass[k])
        /\ \A k \in DOMAIN cardClass : Classified(cardClass[k])

(***************************************************************************)
(* Selection: at most one active element of each kind                      *)
(***************************************************************************)
\* C15: in every reachable state at most one graph node is active and at
\* most one list entry is active.
C15_AtMostOneActive ==
    /\ Cardinality(ActiveNodes) <= 1
    /\ Cardinality(ActiveCards) <= 1

\* C15 witness: node 1 was selected by a click and list entry 2 by a later
\* click on the entry: each kind still has a single active element
C15_Witness ==
    /\ last = Event("clickCard", 2)
    /\ ActiveNodes = {1}
    /\ ActiveCards = {2}

(***************************************************************************)
(* Tooltip: hover events while a selection is open                         *)
(***************************************************************************)
\* the step dispatched pointer-enter or pointer-leave on a node
HoverStep == last'.ev \in {"mouseover", "mouseout"}

\* C16: from a click on a node or list entry (the entry is selected and the
\* tooltip holds its detail panel) until the outside click that dismisses
\* it, pointer-enter and pointer-leave on any node change neither the
\* tooltip's content, nor its visibility, nor its detailed flag, also when
\* they arrive before the deferred callback of the click has run.
C16_HoverLeavesDetailAlone ==
    [][(ActiveCards # {} /\ tipHtml.kind = "detailed" /\ HoverStep) =>
          (tipHtml' = tipHtml /\ tipClass' = tipClass)]_vars

\* no callback of a click is waiting for the next frame
NoDetailPending == \A k \in 1..Len(rafQueue) : ~rafQueue[k].isDetailed

\* C17: with no detailed tooltip open or on its way, the tooltip is not
\* visible after a pointer-leave and stays so until the next pointer-enter
\* or click: an animation frame that comes right after the pointer-leave,
\* running the callback of the pointer-enter before it, does not show it.
C17_LeaveHidesUntilNextEnter ==
    [][(/\ last.ev = "mouseout"
        /\ "detailed" \notin tipClass
        /\ ActiveCards = {}
        /\ NoDetailPending
        /\ last'.ev = "frame") => "visible" \notin tipClass']_vars

(***************************************************************************)
(* Drag handlers and the simulation's tick                                 *)
(*                                                                         *)
(* d3.event.active is the number of drag gestures in progress other than   *)
(* the one that starts or ends; a node is the subject of at most one       *)
(* gesture at a time.                                                      *)
(***************************************************************************)
\* a drag end that leaves the node where the user dropped it
dragendedKeepsPin(i) ==
    /\ loadState = "loaded"
    /\ i \in gestures
    /\ gestures' = gestures \ {i}
    /\ sim' = IF Cardinality(gestures') = 0 THEN [sim EXCEPT !.alphaTarget = 0] ELSE sim
    /\ last' = Event("dragend", i)
    /\ UNCHANGED <<loadState, alerts, nodes, cards, links, nodeClass, cardClass, tipClass,
                   tipHtml, tipPos, rafQueue, searchValue, searchThrew, scrolledTo, ret,
                   position, pin, pointer>>

\* a drag end that cools the simulation without looking at d3.event.active
dragendedAlwaysCools(i) ==
    /\ loadState = "loaded"
    /\ i \in gestures
    /\ gestures' = gestures \ {i}
    /\ sim' = [sim EXCEPT !.alphaTarget = 0]
    /\ pin' = [pin EXCEPT ![i] = Unpinned]
    /\ last' = Event("dragend", i)
    /\ UNCHANGED <<loadState, alerts, nodes, cards, links, nodeClass, cardClass, tipClass,
                   tipHtml, tipPos, rafQueue, searchValue, searchThrew, scrolledTo, ret,
                   position, pointer>>

\* 'start' of a gesture on node i
dragstarted(i) ==
    /\ loadState = "loaded"
    /\ i \in 1..Len(nodes)
    /\ i \notin gestures
    /\ sim' = IF Cardinality(gestures) = 0
              THEN [sim EXCEPT !.alphaTarget = AlphaTargetDrag, !.running = TRUE]
              ELSE sim
    /\ pin' = [pin EXCEPT ![i] = PinnedAt(position[i].x, position[i].y)]
    /\ gestures' = gestures \cup {i}
    /\ last' = Event("dragstart", i)
    /\ UNCHANGED <<loadState, alerts, nodes, cards, links, nodeClass, cardClass, tipClass,
                   tipHtml, tipPos, rafQueue, searchValue, searchThrew, scrolledTo, ret,
                   position, pointer>>

\* 'drag' of the gesture on node i, the pointer at p
dragged(i, p) ==
    /\ loadState = "loaded"
    /\ i \in gestures
    /\ pointer' = p
    /\ pin' = [pin EXCEPT ![i] = PinnedAt(p.x, p.y)]
    /\ last' = Event("drag", i)
    /\ UNCHANGED <<loadState, alerts, nodes, cards, links, nodeClass, cardClass, tipClass,
                   tipHtml, tipPos, rafQueue, searchValue, searchThrew, scrolledTo, ret,
                   position, gestures, sim>>

\* 'end' of the gesture on node i
dragended(i) ==
    /\ loadState = "loaded"
    /\ i \in gestures
    /\ gestures' = gestures \ {i}
    /\ sim' = IF Cardinality(gestures') = 0 THEN [sim EXCEPT !.alphaTarget = 0] ELSE sim
    /\ pin' = [pin EXCEPT ![i] = Unpinned]
    /\ last' = Event("dragend", i)
    /\ UNCHANGED <<loadState, alerts, nodes, cards, links, nodeClass, cardClass, tipClass,
                   tipHtml, tipPos, rafQueue, searchValue, searchThrew, scrolledTo, ret,
                   position, pointer>>

\* one tick of the running simulation: a pinned node is put on its pin, the
\* others go where the forces take them; with alphaTarget 0 the simulation
\* may have cooled down and stop its timer
SimulationTick ==
    /\ sim.created
    /\ sim.running
    /\ \E next \in [1..Len(nodes) -> Points] :
          position' = [k \in 1..Len(nodes) |->
                          IF pin[k].fixed THEN [x |-> pin[k].fx, y |-> pin[k].fy]
                          ELSE next[k]]
    /\ \E running \in BOOLEAN :
          /\ sim.alphaTarget # 0 => running
          /\ sim' = [sim EXCEPT !.running = running]
    /\ last' = Event("tick", 0)
    /\ UNCHANGED <<loadState, alerts, nodes, cards, links, nodeClass, cardClass, tipClass,
                   tipHtml, tipPos, rafQueue, searchValue, searchThrew, scrolledTo, ret,
                   pin, gestures, pointer>>

\* the drag sub-protocol alone: any random start, overlapping gestures on
\* different nodes, ticks in between
LoadDrag ==
    /\ loadState = "pending"
    /\ \E data \in PageDocuments :
          \E start \in [1..Len(data) -> Points] : LoadData(data, start)

DragStart == \E i \in 1..Len(nodes) : dragstarted(i)

DragMove == \E i \in gestures : \E p \in PointerPoints : dragged(i, p)

DragEnd == \E i \in gestures : dragended(i)

NextDrag == LoadDrag \/ DragStart \/ DragMove \/ DragEnd \/ SimulationTick

SpecDrag == Init /\ [][NextDrag]_vars

(***************************************************************************)
(* Drag: pins and the simulation's alpha target                            *)
(***************************************************************************)
\* a node is pinned exactly when a gesture on it is in progress
PinnedIffDragged == \A k \in 1..Len(nodes) : pin[k].fixed <=> k \in gestures

\* the step ran a drag handler
DragStep == last'.ev \in {"dragstart", "drag", "dragend"}

\* C18: a node is pinned exactly while a drag on it is in progress: the
\* start pins it at its current position, a move sets the pin to the
\* pointer, the end clears the pin, and no drag handler changes the pin of
\* another node or any node's position; hence no node is pinned once all
\* drags have ended, and a tick leaves a dragged node on its pin.
C18_PinnedWhileDragged ==
    [][/\ PinnedIffDragged'
       /\ gestures' = {} => \A k \in 1..Len(nodes') : pin'[k] = Unpinned
       /\ last'.ev = "dragstart" =>
             pin'[last'.who] = PinnedAt(position[last'.who].x, position[last'.who].y)
       /\ last'.ev = "drag" => pin'[last'.who] = PinnedAt(pointer'.x, pointer'.y)
       /\ last'.ev = "dragend" => pin'[last'.who] = Unpinned
       /\ DragStep =>
             /\ \A k \in 1..Len(nodes) : k # last'.who => pin'[k] = pin[k]
             /\ position' = position
       /\ last'.ev = "tick" =>
             \A k \in gestures :
                position'[k] = [x |-> pin[k].fx, y |-> pin[k].fy] /\ pin'[k] = pin[k]]_vars

\* C18 witness: of two overlapping drags the one on node 1 has ended and
\* the one on node 2 goes on, node 2 pinned at the pointer of its last move
C18_Witness ==
    /\ last = Event("dragend", 1)
    /\ gestures = {2}
    /\ ~pin[1].fixed
    /\ pin[2] = PinnedAt(pointer.x, pointer.y)
    /\ pointer \in PointerPoints

\* C19: the simulation's alpha target is raised (0.3) in every state with
\* at least one drag in progress and 0 in every state with none, however
\* the starts and ends of overlapping drags interleave.
C19_AlphaTargetWhileDragged ==
    sim.created =>
        /\ gestures # {} => sim.alphaTarget = AlphaTargetDrag
        /\ gestures = {} => sim.alphaTarget = 0

\* C19 witness: a drag has ended while another is still in progress, and
\* the alpha target is still raised
C19_Witness ==
    /\ last.ev = "dragend"
    /\ Cardinality(gestures) = 1
    /\ sim.alphaTarget = AlphaTargetDrag

(***************************************************************************)
(* Tooltip flags and the selection                                         *)
(***************************************************************************)
\* C20: the tooltip is detailed only if it is visible, and whenever it is
\* detailed exactly one list entry is active and it is the entry of the
\* contributor whose detail panel the tooltip shows, for every
\* interleaving of clicks, hovers, outside clicks and animation frames.
C20_DetailedMatchesSelection ==
    (Loaded /\ UniqueIds /\ "detailed" \in tipClass) =>
        /\ "visible" \in tipClass
        /\ Cardinality(ActiveCards) = 1
        /\ \A j \in ActiveCards :
              tipHtml.name = nodes[j].name /\ tipHtml.graduationYear = nodes[j].graduationYear

=============================================================================
